---- MODULE Spec2Model ----
(***************************************************************************)
(* S2EdgeQuery (s2edgequery.cc): candidate edges of an S2ShapeIndex for a  *)
(* query edge AB.  The engine's scratch state (cells_, a_, b_, iter_), the *)
(* caller's output containers and the three public entry points are        *)
(* modelled; face coordinates are integers on a grid, and every coordinate *)
(* produced by interpolation is kept exact by scaling it with the current  *)
(* segment's Scale.                                                        *)
(***************************************************************************)
EXTENDS Integers, Sequences, FiniteSets, TLC

VARIABLES index_, cells_, a_, b_, iter_, edges, edge_map, cells, ret, last,
          trace, pool, budget

vars == <<index_, cells_, a_, b_, iter_, edges, edge_map, cells, ret, last,
          trace, pool, budget>>

\* ------------------------------------------------------------------ bounds
\* Depth of the cell hierarchy (S2CellId::kMaxLevel is 30 in the library).
MaxLevel == 2
\* Side of a leaf cell in grid units.
LeafSize == 2
\* Number of cube faces laid side by side (6 in the library).
NumFaces == 2
\* Number of queries one caller issues on the engine.
MaxCalls == 2

\* --------------------------------------------------------------- constants
kMaxBruteForceEdges == 27

\* ------------------------------------------------------------ arithmetic
Min(x, y) == IF x <= y THEN x ELSE y
Max(x, y) == IF x >= y THEN x ELSE y
Abs(x) == IF x >= 0 THEN x ELSE -x
\* Exact quotient n / d of integers (d # 0), d dividing n.
Quot(n, d) == IF d > 0 THEN n \div d ELSE (-n) \div (-d)

GridSize == LeafSize * 2^MaxLevel

\* ------------------------------------------------------------- R2Rect
\* A rectangle is << <<ulo, uhi>>, <<vlo, vhi>> >>; the code's
\* rect[axis][end] is rect[axis + 1][end + 1] here.
FromPointPair(p, q) ==
  << <<Min(p[1], q[1]), Max(p[1], q[1])>>, <<Min(p[2], q[2]), Max(p[2], q[2])>> >>
IntervalIsEmpty(x) == x[1] > x[2]
IntervalIntersects(x, y) ==
  IF x[1] <= y[1] THEN y[1] <= x[2] /\ y[1] <= y[2]
                  ELSE x[1] <= y[2] /\ x[1] <= x[2]
IntervalContains(x, y) ==
  IF IntervalIsEmpty(y) THEN TRUE ELSE y[1] >= x[1] /\ y[2] <= x[2]
ClampPoint(x, p) == Max(x[1], Min(x[2], p))
is_empty(r) == IntervalIsEmpty(r[1])
Intersects(r, s) == IntervalIntersects(r[1], s[1]) /\ IntervalIntersects(r[2], s[2])
Contains(r, s) == IntervalContains(r[1], s[1]) /\ IntervalContains(r[2], s[2])
ScaleRect(r, k) == << <<r[1][1] * k, r[1][2] * k>>, <<r[2][1] * k, r[2][2] * k>> >>

\* Interpolated coordinates of the segment AB are multiples of 1/Scale(a, b).
Scale(a, b) == Max(1, Abs(b[1] - a[1])) * Max(1, Abs(b[2] - a[2]))

\* S2EdgeUtil::InterpolateDouble: the value at x of the line through (a, a1)
\* and (b, b1), started from the closer endpoint.  x is scaled by k, the
\* endpoints are not; the result is scaled by k.
InterpolateDouble(x, a, b, a1, b1, k) ==
  IF Abs(a * k - x) <= Abs(b * k - x)
    THEN a1 * k + Quot((b1 - a1) * (x - a * k), b - a)
    ELSE b1 * k + Quot((a1 - b1) * (x - b * k), a - b)

\* ------------------------------------------------- S2CellId, S2PaddedCell
Cell(f, l, i, j) == [face |-> f, level |-> l, i |-> i, j |-> j]
FromFace(f) == Cell(f, 0, 0, 0)
is_face(c) == c.level = 0
CellSize(level) == LeafSize * 2^(MaxLevel - level)
AllCells ==
  UNION { { Cell(f, l, i, j) : i \in 0..(2^l - 1), j \in 0..(2^l - 1) } :
          f \in 0..(NumFaces - 1), l \in 0..MaxLevel }

RECURSIVE Interleave(_, _, _)
Interleave(i, j, bits) ==
  IF bits = 0 THEN 0
  ELSE 4 * Interleave(i \div 2, j \div 2, bits - 1) + 2 * (i % 2) + (j % 2)

\* Cell ids in one total order: a cell's descendants are exactly the stored
\* ids within [range_min, range_max].
lsb(c) == 4^(MaxLevel - c.level)
CellId(c) ==
  2 * (c.face * 4^MaxLevel
       + Interleave(c.i * 2^(MaxLevel - c.level), c.j * 2^(MaxLevel - c.level), MaxLevel))
  + lsb(c)
range_min(c) == CellId(c) - (lsb(c) - 1)
range_max(c) == CellId(c) + (lsb(c) - 1)
\* id().contains(other)
IdContains(c, d) == range_min(c) <= CellId(d) /\ CellId(d) <= range_max(c)

\* S2PaddedCell(parent, i, j), padding 0.
Child(p, i, j) == Cell(p.face, p.level + 1, 2 * p.i + i, 2 * p.j + j)
\* S2PaddedCell::bound(), in grid units.
Bound(p) ==
  << <<p.i * CellSize(p.level), (p.i + 1) * CellSize(p.level)>>,
     <<p.j * CellSize(p.level), (p.j + 1) * CellSize(p.level)>> >>
\* S2PaddedCell::middle().lo(): the center of the cell (padding 0).
Center(p) ==
  << p.i * CellSize(p.level) + CellSize(p.level) \div 2,
     p.j * CellSize(p.level) + CellSize(p.level) \div 2 >>

\* S2PaddedCell::ShrinkToFit from a face cell: the smallest cell whose region
\* contains "rect" expanded by a hair on every side (clamped to the face).
ShrinkToFit(face, rect) ==
  LET n == 2^MaxLevel
      ij_min(d) == Max(0, (rect[d][1] - 1) \div LeafSize)
      ij_max(d) == Min(n - 1, rect[d][2] \div LeafSize)
      same(l) == \A d \in 1..2 :
                   ij_min(d) \div 2^(MaxLevel - l) = ij_max(d) \div 2^(MaxLevel - l)
      level == CHOOSE l \in 0..MaxLevel :
                 same(l) /\ \A m \in (l + 1)..MaxLevel : ~same(m)
  IN Cell(face, level, ij_min(1) \div 2^(MaxLevel - level),
                       ij_min(2) \div 2^(MaxLevel - level))

\* ------------------------------------------------- S2ShapeIndex iterator
\* An index is [shapes |-> sequence of [key, num_edges] (shape id = position
\* - 1), cells |-> sequence of [id, cell, clipped] sorted by ascending id,
\* no stored cell containing another]; clipped is a sequence of
\* [shape_id, edges].  The iterator is a position 1..Len(cells) + 1.
RECURSIVE SeekFrom(_, _, _)
SeekFrom(idx, target, p) ==
  IF p > Len(idx.cells) \/ idx.cells[p].id >= target THEN p
  ELSE SeekFrom(idx, target, p + 1)
\* Iterator::Seek(target): the first stored id >= target, or the end.
Seek(idx, target) == SeekFrom(idx, target, 1)
Done(idx, it) == it > Len(idx.cells)

\* S2ShapeIndex::Iterator::Locate(target).
Locate(idx, target) ==
  LET it == Seek(idx, range_min(target))
  IN IF ~Done(idx, it) /\ idx.cells[it].id >= CellId(target)
        /\ range_min(idx.cells[it].cell) <= CellId(target)
       THEN [relation |-> "INDEXED", iter |-> it]
     ELSE IF ~Done(idx, it) /\ idx.cells[it].id <= range_max(target)
       THEN [relation |-> "SUBDIVIDED", iter |-> it]
     ELSE IF it > 1 /\ range_max(idx.cells[it - 1].cell) >= CellId(target)
       THEN [relation |-> "INDEXED", iter |-> it - 1]
     ELSE [relation |-> "DISJOINT", iter |-> IF it > 1 THEN it - 1 ELSE it]

\* S2ShapeIndexCell::find_clipped(shape_id): the clipped shape, or NULL
\* (found = FALSE).
find_clipped(cell, shape_id) ==
  LET hits == { k \in 1..Len(cell.clipped) : cell.clipped[k].shape_id = shape_id }
  IN IF hits = {} THEN [found |-> FALSE, edges |-> <<>>]
     ELSE [found |-> TRUE,
           edges |-> cell.clipped[CHOOSE k \in hits : \A m \in hits : k <= m].edges]
\* iter_.cell(): a pointer to a stored cell is its position in the index.
CellAt(idx, ptr) == idx.cells[ptr]

\* ------------------------------------------------- query edges, face clip
\* A query edge is a pair of points <<U, v>> on the strip of faces laid side
\* by side along u: face f covers U in [f * GridSize, (f + 1) * GridSize].
FaceOf(U) == IF U >= NumFaces * GridSize THEN NumFaces - 1 ELSE U \div GridSize
\* v of the edge where it meets the line U = x (a[1] # b[1]).
CrossV(e, x) == e.a[2] + Quot((e.b[2] - e.a[2]) * (x - e.a[1]), e.b[1] - e.a[1])
\* The endpoint on face f of the part of edge e before (end = 1) or after
\* (end = 2) the other one, in the coordinates of face f.
ClipEnd(e, f, p) ==
  IF FaceOf(p[1]) = f THEN <<p[1] - f * GridSize, p[2]>>
  ELSE IF p[1] < f * GridSize THEN <<0, CrossV(e, f * GridSize)>>
  ELSE <<GridSize, CrossV(e, (f + 1) * GridSize)>>
\* S2EdgeUtil::ClipToFace(a, b, face, &a_, &b_): "ok" is its result, FALSE
\* when AB misses the face.
ClipToFace(e, f) ==
  IF f < Min(FaceOf(e.a[1]), FaceOf(e.b[1])) \/ f > Max(FaceOf(e.a[1]), FaceOf(e.b[1]))
    THEN [ok |-> FALSE, face |-> f, a |-> <<0, 0>>, b |-> <<0, 0>>]
    ELSE [ok |-> TRUE, face |-> f, a |-> ClipEnd(e, f, e.a), b |-> ClipEnd(e, f, e.b)]
\* S2EdgeUtil::GetFaceSegments(a, b, &segments): in order from A to B.
GetFaceSegments(e) ==
  LET fa == FaceOf(e.a[1])
      fb == FaceOf(e.b[1])
      n  == Abs(fb - fa) + 1
  IN [k \in 1..n |-> ClipToFace(e, IF fa <= fb THEN fa + k - 1 ELSE fa - k + 1)]

\* ------------------------------------------------- splitting edge bounds
\* The lower-side test written with "<=".
EntirelyBelowOrAt(hi, center) == hi <= center
\* The tests "edge_bound[d].hi() < center" and "edge_bound[d].lo() >= center".
EntirelyBelow(hi, center) == hi < center
EntirelyAbove(lo, center) == lo >= center

\* SplitBound without the two assignments of v.
SplitBoundUOnly(edge_bound, u_end, u, v_end, v) ==
  << [edge_bound EXCEPT ![1][(1 - u_end) + 1] = u],
     [edge_bound EXCEPT ![1][u_end + 1] = u] >>
\* S2EdgeQuery::SplitBound: <<child_bounds[0], child_bounds[1]>>.
SplitBound(edge_bound, u_end, u, v_end, v) ==
  << [edge_bound EXCEPT ![1][(1 - u_end) + 1] = u, ![2][(1 - v_end) + 1] = v],
     [edge_bound EXCEPT ![1][u_end + 1] = u, ![2][v_end + 1] = v] >>

\* "diag": 0 if AB has positive slope, 1 if AB has negative slope.
Diag(a, b) == IF (a[1] > b[1]) # (a[2] > b[2]) THEN 1 ELSE 0

\* S2EdgeQuery::SplitUBound, for the current edge a, b (a_, b_).
SplitUBound(edge_bound, u, a, b) ==
  SplitBound(edge_bound, 0, u, Diag(a, b),
             ClampPoint(edge_bound[2],
                        InterpolateDouble(u, a[1], b[1], a[2], b[2], Scale(a, b))))

\* SplitVBound handing u and v to SplitBound in each other's place.
SplitVBoundSwapped(edge_bound, v, a, b) ==
  SplitBound(edge_bound, Diag(a, b), v, 0,
             ClampPoint(edge_bound[1],
                        InterpolateDouble(v, a[2], b[2], a[1], b[1], Scale(a, b))))
\* S2EdgeQuery::SplitVBound, for the current edge a, b (a_, b_).
SplitVBound(edge_bound, v, a, b) ==
  SplitBound(edge_bound, Diag(a, b),
             ClampPoint(edge_bound[1],
                        InterpolateDouble(v, a[2], b[2], a[1], b[1], Scale(a, b))),
             0, v)

\* One recursive call to make: child (i, j) of the current cell with a bound.
Kid(i, j, bound) == [i |-> i, j |-> j, bound |-> bound]
\* What one GetCells(pcell, edge_bound) does below the index lookups: the
\* recursive calls it makes, in order, and the splits it performs, each
\* recorded as the bound split and its two child bounds.
Plan(kids, splits) == [kids |-> kids, splits |-> splits]
SplitRec(edge_bound, child_bounds) == [parent |-> edge_bound, children |-> child_bounds]
TwoKids(i0, j0, i1, j1, edge_bound, child_bounds) ==
  Plan(<<Kid(i0, j0, child_bounds[1]), Kid(i1, j1, child_bounds[2])>>,
       {SplitRec(edge_bound, child_bounds)})

\* ClipVAxis recursing into the upper child where the lower one is meant,
\* and into the lower one where the upper one is meant.
ClipVAxisSwapped(edge_bound, center, i, a, b) ==
  IF EntirelyBelow(edge_bound[2][2], center)
    THEN Plan(<<Kid(i, 1, edge_bound)>>, {})
  ELSE IF EntirelyAbove(edge_bound[2][1], center)
    THEN Plan(<<Kid(i, 0, edge_bound)>>, {})
  ELSE TwoKids(i, 0, i, 1, edge_bound, SplitVBound(edge_bound, center, a, b))
\* S2EdgeQuery::ClipVAxis.
ClipVAxis(edge_bound, center, i, a, b) ==
  IF EntirelyBelow(edge_bound[2][2], center)
    THEN Plan(<<Kid(i, 0, edge_bound)>>, {})
  ELSE IF EntirelyAbove(edge_bound[2][1], center)
    THEN Plan(<<Kid(i, 1, edge_bound)>>, {})
  ELSE TwoKids(i, 0, i, 1, edge_bound, SplitVBound(edge_bound, center, a, b))

\* The last branch of GetCells(pcell, edge_bound): the edge bound spans all
\* four children.
SpansAllFour(edge_bound, child_bounds, left, right) ==
  Plan(left.kids \o right.kids,
       {SplitRec(edge_bound, child_bounds)} \cup left.splits \cup right.splits)

\* The branch of GetCells(pcell, edge_bound) that splits at the u-center.
SplitAcrossU(edge_bound, center, child_bounds, a, b) ==
  IF EntirelyBelow(edge_bound[2][2], center[2])
    THEN TwoKids(0, 0, 1, 0, edge_bound, child_bounds)
  ELSE IF EntirelyAbove(edge_bound[2][1], center[2])
    THEN TwoKids(0, 1, 1, 1, edge_bound, child_bounds)
  ELSE SpansAllFour(edge_bound, child_bounds,
                    ClipVAxis(child_bounds[1], center[2], 0, a, b),
                    ClipVAxis(child_bounds[2], center[2], 1, a, b))

\* GetCells(pcell, edge_bound) from "Otherwise, split the edge among the
\* four children"; center is pcell.middle().lo().
SplitAmongChildren(edge_bound, center, a, b) ==
  IF EntirelyBelow(edge_bound[1][2], center[1])
    THEN ClipVAxis(edge_bound, center[2], 0, a, b)
  ELSE IF EntirelyAbove(edge_bound[1][1], center[1])
    THEN ClipVAxis(edge_bound, center[2], 1, a, b)
  ELSE SplitAcrossU(edge_bound, center, SplitUBound(edge_bound, center[1], a, b), a, b)

\* ------------------------------------------------- cell discovery
\* The engine's state while a query runs: the members cells_, a_, b_, iter_
\* and the record of the recursive calls and splits made by this query.
Engine(c, a, b, it) ==
  [cells_ |-> c, a_ |-> a, b_ |-> b, iter_ |-> it, calls |-> {}, splits |-> {}]
CallRec(pcell, edge_bound, a, b, nkids) ==
  [pcell |-> pcell, bound |-> edge_bound, scale |-> Scale(a, b), nkids |-> nkids]
\* pcell.middle().lo() in the scale of the current edge's bounds.
ScaledCenter(pcell, a, b) ==
  <<Center(pcell)[1] * Scale(a, b), Center(pcell)[2] * Scale(a, b)>>

RECURSIVE GetCellsRec(_, _, _, _)
RECURSIVE VisitKids(_, _, _, _, _)
\* GetCells(pcell, edge_bound) with the index not holding pcell itself.
Descend(idx, pcell, edge_bound, plan, st) ==
  VisitKids(idx, pcell, plan.kids, 1,
    [st EXCEPT !.calls = @ \cup {CallRec(pcell, edge_bound, st.a_, st.b_, Len(plan.kids))},
               !.splits = @ \cup plan.splits])

\* GetCells(pcell, edge_bound) after iter_.Seek(pcell.id().range_min()) has
\* left the iterator at "it".
AfterSeek(idx, pcell, edge_bound, it, st) ==
  IF Done(idx, it) \/ idx.cells[it].id > range_max(pcell)
    THEN [st EXCEPT !.iter_ = it,
                    !.calls = @ \cup {CallRec(pcell, edge_bound, st.a_, st.b_, 0)}]
  ELSE IF idx.cells[it].id = CellId(pcell)
    THEN [st EXCEPT !.iter_ = it,
                    !.cells_ = Append(@, it),
                    !.calls = @ \cup {CallRec(pcell, edge_bound, st.a_, st.b_, 0)}]
  ELSE Descend(idx, pcell, edge_bound,
               SplitAmongChildren(edge_bound, ScaledCenter(pcell, st.a_, st.b_),
                                  st.a_, st.b_),
               [st EXCEPT !.iter_ = it])

\* S2EdgeQuery::GetCells(pcell, edge_bound).
GetCellsRec(idx, pcell, edge_bound, st) ==
  AfterSeek(idx, pcell, edge_bound, Seek(idx, range_min(pcell)), st)

\* The recursive calls of one GetCells(pcell, edge_bound), in order.
VisitKids(idx, pcell, kids, n, st) ==
  IF n > Len(kids) THEN st
  ELSE VisitKids(idx, pcell, kids, n + 1,
         GetCellsRec(idx, Child(pcell, kids[n].i, kids[n].j), kids[n].bound, st))

\* GetCells(a, b), one face segment, after iter_.Locate(edge_root).
AfterLocate(idx, seg, edge_root, loc, st) ==
  IF loc.relation = "INDEXED"
    THEN [st EXCEPT !.a_ = seg.a, !.b_ = seg.b, !.iter_ = loc.iter,
                    !.cells_ = Append(@, loc.iter)]
  ELSE IF loc.relation = "SUBDIVIDED"
    THEN GetCellsRec(idx, IF ~is_face(edge_root) THEN edge_root ELSE FromFace(seg.face),
                     ScaleRect(FromPointPair(seg.a, seg.b), Scale(seg.a, seg.b)),
                     [st EXCEPT !.a_ = seg.a, !.b_ = seg.b, !.iter_ = loc.iter])
  ELSE [st EXCEPT !.a_ = seg.a, !.b_ = seg.b, !.iter_ = loc.iter]

\* GetCells(a, b), one face segment, once its root cell is known.
FromRoot(idx, seg, edge_root, st) ==
  AfterLocate(idx, seg, edge_root, Locate(idx, edge_root), st)

\* One iteration of the loop over face segments in GetCells(a, b).
GetCellsSegment(idx, seg, st) ==
  FromRoot(idx, seg, ShrinkToFit(seg.face, FromPointPair(seg.a, seg.b)), st)

RECURSIVE SegmentLoop(_, _, _, _)
SegmentLoop(idx, segments, i, st) ==
  IF i > Len(segments) THEN st
  ELSE SegmentLoop(idx, segments, i + 1, GetCellsSegment(idx, segments[i], st))

\* A discovery that starts without cells_.clear().
KeepCells(st) == [st EXCEPT !.calls = {}, !.splits = {}]
\* cells_.clear() at the start of a discovery; the record of calls restarts.
ClearCells(st) == [st EXCEPT !.cells_ = <<>>, !.calls = {}, !.splits = {}]

\* S2EdgeQuery::GetCells(a, b): sets cells_ from the engine state "st".
GetCellsAB(idx, e, st) ==
  SegmentLoop(idx, GetFaceSegments(e), 1, ClearCells(st))

\* GetCells(a, b, root, cells) after ClipToFace has returned "seg".
ClippedToRoot(idx, root, seg, st) ==
  IF ~seg.ok THEN st
  ELSE IF Intersects(Bound(root), FromPointPair(seg.a, seg.b))
    THEN GetCellsRec(idx, root,
                     ScaleRect(FromPointPair(seg.a, seg.b), Scale(seg.a, seg.b)),
                     [st EXCEPT !.a_ = seg.a, !.b_ = seg.b])
  ELSE [st EXCEPT !.a_ = seg.a, !.b_ = seg.b]

\* The end of GetCells(a, b, root, cells): [st, cells, ret].
ReturnCells(st, out) ==
  IF st.cells_ = <<>>
    THEN [st |-> st, cells |-> out, ret |-> FALSE]
    ELSE [st |-> st, cells |-> st.cells_, ret |-> TRUE]

\* S2EdgeQuery::GetCells(a, b, root, cells); "out" is what the caller's
\* vector holds at the call.
GetCellsRoot(idx, e, root, out, st) ==
  ReturnCells(ClippedToRoot(idx, root, ClipToFace(e, root.face), ClearCells(st)), out)

\* ------------------------------------------------- candidate collection
\* std::sort(edges->begin(), edges->end()).
RECURSIVE Insert(_, _)
Insert(sorted, x) ==
  IF sorted = <<>> THEN <<x>>
  ELSE IF x < Head(sorted) THEN <<x>> \o sorted
  ELSE <<Head(sorted)>> \o Insert(Tail(sorted), x)
RECURSIVE Sort(_)
Sort(seq) == IF seq = <<>> THEN <<>> ELSE Insert(Sort(Tail(seq)), Head(seq))
\* edges->erase(std::unique(...), edges->end()): drop repeats of the
\* element before.
RECURSIVE Unique(_)
Unique(seq) ==
  IF Len(seq) <= 1 THEN seq
  ELSE IF seq[1] = seq[2] THEN Unique(Tail(seq))
  ELSE <<seq[1]>> \o Unique(Tail(seq))
\* Sorting without the erase of repeats.
SortOnly(seq) == Sort(seq)
SortUnique(seq) == Unique(Sort(seq))

\* The threshold test written with "<".
UseBruteForceBelow(max_edges) == max_edges < kMaxBruteForceEdges
\* The test "max_edges <= kMaxBruteForceEdges".
UseBruteForce(max_edges) == max_edges <= kMaxBruteForceEdges
\* The test "cells_.size() > 1" that guards sorting and deduplication.
NeedsSort(collected) == Len(collected) > 1
\* edges->clear().
Clear(out) == SubSeq(out, 1, 0)

\* shape(i) of an index.
ShapeAt(idx, i) ==
  [id |-> i, key |-> idx.shapes[i + 1].key, num_edges |-> idx.shapes[i + 1].num_edges]

\* The inner loop of the single-shape query: the clipped shape's edges are
\* appended to "out" (a NULL clipped shape is skipped).
AppendClipped(clipped, out) == IF ~clipped.found THEN out ELSE out \o clipped.edges
\* The loop over cells_ of the single-shape query.
RECURSIVE GatherShape(_, _, _, _, _)
GatherShape(idx, collected, i, shape_id, out) ==
  IF i > Len(collected) THEN out
  ELSE GatherShape(idx, collected, i + 1, shape_id,
                   AppendClipped(find_clipped(CellAt(idx, collected[i]), shape_id), out))

\* The end of the single-shape query: sort, deduplicate, return.
ReturnEdges(st, gathered) ==
  IF NeedsSort(st.cells_)
    THEN [st |-> st, edges |-> SortUnique(gathered), ret |-> SortUnique(gathered) # <<>>]
    ELSE [st |-> st, edges |-> gathered, ret |-> gathered # <<>>]

\* The single-shape query after GetCells(a, b) has left the engine in "st".
FromCells(idx, shape, out, st) ==
  IF st.cells_ = <<>> THEN [st |-> st, edges |-> out, ret |-> FALSE]
  ELSE ReturnEdges(st, GatherShape(idx, st.cells_, 1, shape.id, out))

\* S2EdgeQuery::GetCandidates(a, b, shape, edges): [st, edges, ret]; "out"
\* is what the caller's vector holds at the call.
GetCandidatesShape(idx, e, shape, out, st) ==
  IF UseBruteForce(shape.num_edges)
    THEN [st |-> st, edges |-> Clear(out) \o [i \in 1..shape.num_edges |-> i - 1],
          ret |-> TRUE]
    ELSE FromCells(idx, shape, Clear(out), GetCellsAB(idx, e, st))

\* An EdgeMap is a function from shape keys to edge vectors.
EmptyMap == [key \in {} |-> <<>>]
\* (*edge_map)[shape]: the map with an entry for "key".
WithEntry(m, key) ==
  IF key \in DOMAIN m THEN m
  ELSE [x \in DOMAIN m \cup {key} |-> IF x = key THEN <<>> ELSE m[x]]
\* The lookup without the clearing of a map that holds other entries.
ReuseEntryKeep(m, key) == WithEntry(m, key)
\* The single-shape branch's reuse of "edge_map": look the shape up, and
\* clear the map when it then holds more than that one entry.
ReuseEntry(m, key) ==
  IF Cardinality(DOMAIN WithEntry(m, key)) # 1
    THEN WithEntry(EmptyMap, key)
    ELSE WithEntry(m, key)

\* edges->push_back(...) for every edge of one clipped shape.
PushClipped(m, key, clipped_edges) ==
  [WithEntry(m, key) EXCEPT ![key] = @ \o clipped_edges]
\* The loops over cells_ and over each cell's clipped shapes of the
\* multi-shape query.
RECURSIVE GatherClipped(_, _, _, _)
GatherClipped(idx, clipped, s, m) ==
  IF s > Len(clipped) THEN m
  ELSE GatherClipped(idx, clipped, s + 1,
                     PushClipped(m, ShapeAt(idx, clipped[s].shape_id).key,
                                 clipped[s].edges))
RECURSIVE GatherAll(_, _, _, _)
GatherAll(idx, collected, i, m) ==
  IF i > Len(collected) THEN m
  ELSE GatherAll(idx, collected, i + 1,
                 GatherClipped(idx, CellAt(idx, collected[i]).clipped, 1, m))

\* The end of the multi-shape query: sort and deduplicate every entry.
ReturnMap(st, gathered) ==
  IF NeedsSort(st.cells_)
    THEN [st |-> st,
          edge_map |-> [key \in DOMAIN gathered |-> SortUnique(gathered[key])],
          ret |-> DOMAIN gathered # {}]
    ELSE [st |-> st, edge_map |-> gathered, ret |-> DOMAIN gathered # {}]

\* The multi-shape query after GetCells(a, b) has left the engine in "st".
FromCellsMap(idx, st) ==
  IF st.cells_ = <<>> THEN [st |-> st, edge_map |-> EmptyMap, ret |-> FALSE]
  ELSE ReturnMap(st, GatherAll(idx, st.cells_, 1, EmptyMap))

\* The single-shape branch once the map "m" holds the entry to reuse and
\* the single-shape query has returned "r".
ReturnEntry(m, key, r) ==
  [st |-> r.st, edge_map |-> [m EXCEPT ![key] = r.edges], ret |-> r.ret]
SingleShape(idx, e, shape, m, st) ==
  ReturnEntry(m, shape.key, GetCandidatesShape(idx, e, shape, m[shape.key], st))

\* S2EdgeQuery::GetCandidates(a, b, edge_map): [st, edge_map, ret]; "m" is
\* what the caller's map holds at the call.
GetCandidatesMap(idx, e, m, st) ==
  IF Len(idx.shapes) = 1
    THEN SingleShape(idx, e, ShapeAt(idx, 0), ReuseEntry(m, ShapeAt(idx, 0).key), st)
    ELSE FromCellsMap(idx, GetCellsAB(idx, e, st))

\* ------------------------------------------------- indexes queried
\* Edge lists of the clipped shapes stored in cell c: ascending within a
\* cell, with edge ids shared between cells (20 is listed by every cell
\* that holds shape 0).
ClippedEdges(c, shape_id) ==
  IF shape_id = 0 THEN <<(c.i + 2 * c.j) % 4, 10 + (c.i % 2), 20>>
  ELSE <<28 + (c.j % 2)>>
ClippedOf(c, nshapes) ==
  IF nshapes = 1 \/ (c.i + c.j) % 3 = 1
    THEN <<[shape_id |-> 0, edges |-> ClippedEdges(c, 0)]>>
  ELSE IF (c.i + c.j) % 3 = 0
    THEN <<[shape_id |-> 1, edges |-> ClippedEdges(c, 1)]>>
  ELSE <<[shape_id |-> 0, edges |-> ClippedEdges(c, 0)],
         [shape_id |-> 1, edges |-> ClippedEdges(c, 1)]>>
RECURSIVE SortCells(_)
FirstCell(S) == CHOOSE x \in S : \A y \in S : CellId(x) <= CellId(y)
ConsCell(c, S) == <<c>> \o SortCells(S \ {c})
SortCells(S) == IF S = {} THEN <<>> ELSE ConsCell(FirstCell(S), S)
StoredCell(c, nshapes) ==
  [id |-> CellId(c), cell |-> c, clipped |-> ClippedOf(c, nshapes)]
RECURSIVE StoredCells(_, _)
StoredCells(sorted, nshapes) ==
  IF sorted = <<>> THEN <<>>
  ELSE <<StoredCell(Head(sorted), nshapes)>> \o StoredCells(Tail(sorted), nshapes)
MkIndex(shapes, S) ==
  [shapes |-> shapes, cells |-> StoredCells(SortCells(S), Len(shapes))]

Faces == 0..(NumFaces - 1)
LeafCells(f) == { c \in AllCells : c.face = f /\ c.level = MaxLevel }
QuadCells(f) == { c \in AllCells : c.face = f /\ c.level = 1 }
\* One quadrant stored whole, one subdivided once, one holding a single
\* leaf, one not in the index.
MixedCells(f) ==
  {Cell(f, 1, 0, 0)}
  \cup { Child(Cell(f, 1, 1, 1), i, j) : i \in 0..1, j \in 0..1 }
  \cup { c \in LeafCells(f) : c.i = 0 /\ c.j = 2^MaxLevel - 1 }
Shape(key, n) == [key |-> key, num_edges |-> n]

\* The indexes an engine may be built on; index_ points at one of them.
Indexes ==
  << MkIndex(<<Shape("s0", 28)>>, MixedCells(0) \cup {FromFace(f) : f \in Faces \ {0}}),
    MkIndex(<<Shape("s0", 27)>>, MixedCells(0) \cup {FromFace(f) : f \in Faces \ {0}}),
    MkIndex(<<Shape("s0", 28), Shape("s1", 30)>>,
            LeafCells(0) \cup UNION { MixedCells(f) : f \in Faces \ {0} }),
    MkIndex(<<Shape("s0", 0)>>, {}),
    MkIndex(<<Shape("s0", 28)>>, LeafCells(0) \cup {FromFace(f) : f \in Faces \ {0}}),
    MkIndex(<<Shape("s0", 28)>>, UNION { MixedCells(f) : f \in Faces }),
    MkIndex(<<Shape("s0", 28)>>,
            QuadCells(0) \cup {FromFace(f) : f \in Faces \ {0}}) >>
\* Indexes with one shape of 28, 27 and 0 edges and with two shapes.
ApiIndexes == 1..4
\* Indexes of leaf cells, of mixed levels and of quadrants and whole faces.
GeomIndexes == 5..7
\* *index_
Index == Indexes[index_]

\* ------------------------------------------------- query edges
Edge(a, b) == [a |-> a, b |-> b]
\* The edge meets every face boundary it crosses at a grid point.
IntegralCrossings(e) ==
  \A f \in 1..(NumFaces - 1) :
    LET x == f * GridSize
    IN (Min(e.a[1], e.b[1]) < x /\ x < Max(e.a[1], e.b[1]))
         => ((e.b[2] - e.a[2]) * (x - e.a[1])) % Abs(e.b[1] - e.a[1]) = 0

\* Coordinates at and next to the borders, the middle and the quarters of a
\* face; every grid coordinate when GridSize is 8.
Coords ==
  { 0, 1, GridSize \div 4, GridSize \div 2 - 1, GridSize \div 2, GridSize \div 2 + 1,
    (3 * GridSize) \div 4, GridSize - 1, GridSize }
CoarseCoords == { 1, GridSize \div 2, GridSize - 1 }
GeomEdges ==
  { Edge(<<au, av>>, <<bu, bv>>) : au \in Coords, av \in Coords, bu \in Coords, bv \in Coords }
  \cup { e \in { Edge(<<f * GridSize + au, av>>, <<g * GridSize + bu, bv>>) :
                   f \in Faces, g \in Faces,
                   au \in CoarseCoords, av \in CoarseCoords,
                   bu \in CoarseCoords, bv \in CoarseCoords } :
         FaceOf(e.a[1]) # FaceOf(e.b[1]) /\ IntegralCrossings(e) }
GeomRoots == { FromFace(0), Cell(0, 1, 1, 1) }

QueryEdges ==
  { Edge(<<1, 1>>, <<GridSize - 1, GridSize - 1>>),
    Edge(<<1, 2>>, <<GridSize \div 2 - 1, 1>>),
    Edge(<<GridSize - 2, GridSize \div 2 + 1>>, <<GridSize + 2, GridSize \div 2 + 1>>),
    Edge(<<GridSize + 1, 1>>, <<GridSize + 3, 2>>) }
QueryRoots == { Cell(0, 1, 1, 1) }

\* What the caller's containers hold before the first query.
Presets ==
  { [edges |-> <<>>, edge_map |-> EmptyMap, cells |-> <<>>],
    [edges |-> <<7, 7>>, edge_map |-> [key \in {"sx"} |-> <<1>>], cells |-> <<1>>],
    [edges |-> <<>>, edge_map |-> [key \in {"s0", "sx"} |-> <<9, 2>>], cells |-> <<>>],
    [edges |-> <<>>, edge_map |-> [key \in {"s0"} |-> <<26, 3>>], cells |-> <<1, 3>>] }

\* ------------------------------------------------- the state machine
NoShape == [id |-> -1, key |-> "none", num_edges |-> 0]
NoRoot == Cell(-1, 0, 0, 0)
NoEdge == Edge(<<0, 0>>, <<0, 0>>)
\* The engine after construction.
Fresh == Engine(<<>>, <<0, 0>>, <<0, 0>>, 1)
\* The engine as the next query finds it.
Current == Engine(cells_, a_, b_, iter_)
\* What a query finds when it starts: the caller's containers and the
\* engine's members.
Prior ==
  [edges |-> edges, edge_map |-> edge_map, cells |-> cells,
   cells_ |-> cells_, a_ |-> a_, b_ |-> b_, iter_ |-> iter_]

InitWith(idxs, pools, presets, calls) ==
  /\ index_ \in idxs
  /\ pool \in pools
  /\ \E p \in presets :
       /\ edges = p.edges
       /\ edge_map = p.edge_map
       /\ cells = p.cells
  /\ cells_ = Fresh.cells_
  /\ a_ = Fresh.a_
  /\ b_ = Fresh.b_
  /\ iter_ = Fresh.iter_
  /\ ret = FALSE
  /\ last = [op |-> "none", e |-> NoEdge, shape |-> NoShape, root |-> NoRoot,
             prior |-> [edges |-> <<>>, edge_map |-> EmptyMap, cells |-> <<>>,
                        cells_ |-> Fresh.cells_, a_ |-> Fresh.a_, b_ |-> Fresh.b_,
                        iter_ |-> Fresh.iter_]]
  /\ trace = [calls |-> {}, splits |-> {}]
  /\ budget = calls

Init == InitWith(ApiIndexes, {[edges |-> QueryEdges, roots |-> QueryRoots]}, Presets, MaxCalls)

InitGeom ==
  InitWith(GeomIndexes, { [edges |-> {e}, roots |-> GeomRoots] : e \in GeomEdges },
           {[edges |-> <<>>, edge_map |-> EmptyMap, cells |-> <<>>]}, 1)

SetEngine(st) ==
  /\ cells_' = st.cells_
  /\ a_' = st.a_
  /\ b_' = st.b_
  /\ iter_' = st.iter_
  /\ trace' = [calls |-> st.calls, splits |-> st.splits]

\* The caller runs the single-shape query on its vector "edges".
CallGetCandidates(e, shape) ==
  /\ budget > 0
  /\ \E r \in {GetCandidatesShape(Index, e, shape, edges, Current)} :
       /\ SetEngine(r.st)
       /\ edges' = r.edges
       /\ ret' = r.ret
  /\ last' = [op |-> "shape", e |-> e, shape |-> shape, root |-> NoRoot, prior |-> Prior]
  /\ budget' = budget - 1
  /\ UNCHANGED <<index_, edge_map, cells, pool>>

\* The caller runs the multi-shape query on its map "edge_map".
CallGetCandidatesMap(e) ==
  /\ budget > 0
  /\ \E r \in {GetCandidatesMap(Index, e, edge_map, Current)} :
       /\ SetEngine(r.st)
       /\ edge_map' = r.edge_map
       /\ ret' = r.ret
  /\ last' = [op |-> "map", e |-> e, shape |-> NoShape, root |-> NoRoot, prior |-> Prior]
  /\ budget' = budget - 1
  /\ UNCHANGED <<index_, edges, cells, pool>>

\* The caller runs the root-seeded query on its vector "cells".
CallGetCells(e, root) ==
  /\ budget > 0
  /\ \E r \in {GetCellsRoot(Index, e, root, cells, Current)} :
       /\ SetEngine(r.st)
       /\ cells' = r.cells
       /\ ret' = r.ret
  /\ last' = [op |-> "cells", e |-> e, shape |-> NoShape, root |-> root, prior |-> Prior]
  /\ budget' = budget - 1
  /\ UNCHANGED <<index_, edges, edge_map, pool>>

Next ==
  \/ \E e \in pool.edges, s \in 0..(Len(Index.shapes) - 1) :
       CallGetCandidates(e, ShapeAt(Index, s))
  \/ \E e \in pool.edges : CallGetCandidatesMap(e)
  \/ \E e \in pool.edges, root \in pool.roots : CallGetCells(e, root)

\* The queries that reach cell discovery from its two entry points.
NextGeom ==
  \/ \E e \in pool.edges : CallGetCandidatesMap(e)
  \/ \E e \in pool.edges, root \in pool.roots : CallGetCells(e, root)

\* A caller issuing MaxCalls queries, of any kind, on one engine.
Spec == Init /\ [][Next]_vars
\* One query for every edge of a grid of endpoints.
SpecGeom == InitGeom /\ [][NextGeom]_vars

\* ------------------------------------------------- properties: candidates
Range(seq) == { seq[k] : k \in 1..Len(seq) }
Ascending(seq) == \A k \in 1..(Len(seq) - 1) : seq[k] < seq[k + 1]
\* The edge ids the stored cell at "ptr" lists for a shape.
ListedBy(ptr, shape_id) == Range(find_clipped(CellAt(Index, ptr), shape_id).edges)
\* The last query ran cell discovery GetCells(a, b).
RanDiscovery ==
  \/ last.op = "shape" /\ last.shape.num_edges > 27
  \/ last.op = "map" /\ (Len(Index.shapes) # 1 \/ ShapeAt(Index, 0).num_edges > 27)

\* C1: a single-shape query on a shape of at most 27 edges returns exactly
\* 0, 1, ..., count-1, whatever the edge, the index, the output vector and
\* the engine held; on a shape of more than 27 edges the result is made of
\* the edge ids listed for the shape by the cells discovery collected.
BruteForceUpTo27 ==
  last.op = "shape" =>
    /\ last.shape.num_edges <= 27 =>
         edges = [k \in 1..last.shape.num_edges |-> k - 1]
    /\ last.shape.num_edges > 27 =>
         Range(edges) = UNION { ListedBy(cells_[k], last.shape.id) : k \in 1..Len(cells_) }
\* A query on a shape of 27 edges whose output vector and engine were used
\* before.
BruteForceAt27 ==
  /\ last.op = "shape"
  /\ last.shape.num_edges = 27
  /\ last.prior.edges # <<>>
  /\ last.prior.cells_ # <<>>
  /\ Len(edges) = 27

\* C2: the single-shape query returns true if and only if the output vector
\* is non-empty when it returns, for every edge count, 0 included.
TrueIffNonEmpty == last.op = "shape" => (ret <=> edges # <<>>)

\* The root of a root-seeded query misses the edge: the edge does not clip
\* to the root's face, or the clipped edge's bound is disjoint from the
\* root's region.
ClippedMisses(root, seg) ==
  ~seg.ok \/ ~Intersects(Bound(root), FromPointPair(seg.a, seg.b))
RootMisses(e, root) == ClippedMisses(root, ClipToFace(e, root.face))

\* C3: a root-seeded query whose root misses the edge returns false and
\* leaves the caller's cell list empty, whatever the list held.
MissEmptiesList ==
  (last.op = "cells" /\ RootMisses(last.e, last.root)) => (ret = FALSE /\ cells = <<>>)

\* C4: on an index of one shape, after a multi-shape query the map has
\* exactly one entry, keyed by that shape, holding what this query alone
\* produces (the single-shape result from an empty vector and a new engine).
OneEntryReplaced ==
  (last.op = "map" /\ Len(Index.shapes) = 1) =>
    /\ DOMAIN edge_map = {ShapeAt(Index, 0).key}
    /\ edge_map[ShapeAt(Index, 0).key]
         = GetCandidatesShape(Index, last.e, ShapeAt(Index, 0), <<>>, Fresh).edges
\* Such a query on a map that held several entries, one of them the shape's
\* own with other edge ids, and that now holds edges.
SeveralEntriesReplaced ==
  /\ last.op = "map"
  /\ Len(Index.shapes) = 1
  /\ Cardinality(DOMAIN last.prior.edge_map) > 1
  /\ ShapeAt(Index, 0).key \in DOMAIN last.prior.edge_map
  /\ edge_map[ShapeAt(Index, 0).key] # <<>>
  /\ Range(last.prior.edge_map[ShapeAt(Index, 0).key])
       \cap Range(edge_map[ShapeAt(Index, 0).key]) = {}

\* C5: when discovery collected more than one cell, the single-shape result
\* and every entry of the multi-shape result are strictly ascending.
DedupAscending ==
  (RanDiscovery /\ Len(cells_) > 1) =>
    /\ last.op = "shape" => Ascending(edges)
    /\ last.op = "map" => \A key \in DOMAIN edge_map : Ascending(edge_map[key])
\* Two of the collected cells list the same edge id of a shape, for an edge
\* with segments on two faces.
SameEdgeInTwoCells ==
  /\ RanDiscovery
  /\ last.op = "map"
  /\ FaceOf(last.e.a[1]) # FaceOf(last.e.b[1])
  /\ \E k \in 1..Len(cells_), m \in 1..Len(cells_), s \in 0..(Len(Index.shapes) - 1) :
       /\ k < m
       /\ cells_[k] # cells_[m]
       /\ ListedBy(cells_[k], s) \cap ListedBy(cells_[m], s) # {}

\* C7: a query's boolean and result are those the same call gives on a
\* newly constructed engine: they do not depend on the cells, segment
\* endpoints and iterator position left by earlier queries.
HistoryIndependent ==
  /\ last.op = "shape" =>
       \E r \in {GetCandidatesShape(Index, last.e, last.shape, last.prior.edges, Fresh)} :
         ret = r.ret /\ edges = r.edges
  /\ last.op = "map" =>
       \E r \in {GetCandidatesMap(Index, last.e, last.prior.edge_map, Fresh)} :
         ret = r.ret /\ edge_map = r.edge_map
  /\ last.op = "cells" =>
       \E r \in {GetCellsRoot(Index, last.e, last.root, last.prior.cells, Fresh)} :
         ret = r.ret /\ cells = r.cells
\* A query that found cells, on an engine holding another query's cells,
\* endpoints and iterator position.
AfterOtherQuery ==
  /\ last.op \in {"map", "cells"}
  /\ ret
  /\ last.prior.cells_ # <<>>
  /\ last.prior.cells_ # cells_
  /\ last.prior.a_ # a_
  /\ last.prior.iter_ # Fresh.iter_

\* ------------------------------------------------- properties: discovery
\* The points of segment AB are a + (k / n) * (b - a) for real k in [0, n],
\* with n = 2 * Scale(a, b) a multiple of both coordinate differences.
\* KRange: <<first, last>> of the integers k in 0..n whose point has its
\* coordinate (from "a0", moving by "d") in [lo, hi], or in [lo, hi) when
\* not "closed".  An interval between two multiples of 1/Scale(a, b) that
\* holds a point holds one with integer k.
KRange(a0, d, lo, hi, closed, n) ==
  IF d = 0
    THEN IF lo <= a0 /\ (a0 < hi \/ (closed /\ a0 = hi)) THEN <<0, n>> ELSE <<1, 0>>
  ELSE IF d > 0
    THEN << Max(0, (lo - a0) * (n \div d)),
            Min(n, (hi - a0) * (n \div d) - (IF closed THEN 0 ELSE 1)) >>
  ELSE << Max(0, (a0 - hi) * (n \div (-d)) + (IF closed THEN 0 ELSE 1)),
          Min(n, (a0 - lo) * (n \div (-d))) >>
Overlap(ku, kv) == Max(ku[1], kv[1]) <= Min(ku[2], kv[2])
\* Segment AB has a point in the rectangle r with its borders.
TouchesClosed(a, b, r) ==
  Overlap(KRange(a[1], b[1] - a[1], r[1][1], r[1][2], TRUE, 2 * Scale(a, b)),
          KRange(a[2], b[2] - a[2], r[2][1], r[2][2], TRUE, 2 * Scale(a, b)))
\* Segment AB has a point in the rectangle r taken without its upper u and
\* upper v borders, except where they are borders of the face.
TouchesHalfOpen(a, b, r) ==
  Overlap(KRange(a[1], b[1] - a[1], r[1][1], r[1][2], r[1][2] = GridSize, 2 * Scale(a, b)),
          KRange(a[2], b[2] - a[2], r[2][1], r[2][2], r[2][2] = GridSize, 2 * Scale(a, b)))

\* The face segments of the last query's edge.
LastSegments == GetFaceSegments(last.e)
\* The positions of the stored cells on the face of a segment.
StoredOn(face) == { p \in 1..Len(Index.cells) : Index.cells[p].cell.face = face }

\* C6 as amended: after GetCells(a, b), every stored cell that holds a
\* point of a face segment of the edge, the cell taken without its upper u
\* and upper v borders (unless on the border of the face), is in cells_.
NoTouchedCellOmitted ==
  RanDiscovery =>
    \A k \in 1..Len(LastSegments) : \A p \in StoredOn(LastSegments[k].face) :
      TouchesHalfOpen(LastSegments[k].a, LastSegments[k].b, Bound(Index.cells[p].cell))
        => p \in Range(cells_)
\* C6 as stated: after GetCells(a, b), every stored cell whose region (a
\* closed square) holds a point of a face segment of the edge is in cells_.
NoTouchedCellOmittedClosed ==
  RanDiscovery =>
    \A k \in 1..Len(LastSegments) : \A p \in StoredOn(LastSegments[k].face) :
      TouchesClosed(LastSegments[k].a, LastSegments[k].b, Bound(Index.cells[p].cell))
        => p \in Range(cells_)
\* A discovery over two faces that recursed and collected cells of two
\* levels, every one of them holding a point of the edge.
TouchedCellsCollected ==
  /\ RanDiscovery
  /\ Len(LastSegments) = 2
  /\ trace.splits # {}
  /\ \E k \in 1..Len(cells_), m \in 1..Len(cells_) :
       CellAt(Index, cells_[k]).cell.level < CellAt(Index, cells_[m]).cell.level
  /\ \A k \in 1..Len(cells_) : \E m \in 1..Len(LastSegments) :
       /\ LastSegments[m].face = CellAt(Index, cells_[k]).cell.face
       /\ TouchesHalfOpen(LastSegments[m].a, LastSegments[m].b,
                          Bound(CellAt(Index, cells_[k]).cell))

\* A recorded call's edge bound straddles the center of its cell on axis d:
\* it is neither entirely below it nor entirely at or above it.
Straddles(rec, d) ==
  /\ rec.bound[d][1] < Center(rec.pcell)[d] * rec.scale
  /\ rec.bound[d][2] >= Center(rec.pcell)[d] * rec.scale

\* C8: a call of the recursive search recurses into at most three children
\* when its edge bound straddles the cell's center on both axes, and into
\* at most two otherwise.
AtMostThreeChildren ==
  \A rec \in trace.calls :
    IF Straddles(rec, 1) /\ Straddles(rec, 2) THEN rec.nkids <= 3 ELSE rec.nkids <= 2
\* One call of a query recursed into three children, and another, with a
\* bound straddling the center on one axis only, recursed into two.
ThreeChildrenVisited ==
  /\ \E rec \in trace.calls : rec.nkids = 3
  /\ \E rec \in trace.calls :
       /\ Straddles(rec, 1) # Straddles(rec, 2)
       /\ rec.nkids = 2

NonEmptyRect(r) == ~IntervalIsEmpty(r[1]) /\ ~IntervalIsEmpty(r[2])
\* C9: both child bounds of every split are non-empty and contained in the
\* bound that was split.
SplitsStayInside ==
  \A s \in trace.splits : \A c \in 1..2 :
    NonEmptyRect(s.children[c]) /\ Contains(s.parent, s.children[c])
\* A query that split bounds at least three times, one split leaving both
\* children smaller than the bound split on both axes.
SplitShrinksBoth ==
  /\ Cardinality(trace.splits) >= 3
  /\ \E s \in trace.splits : \A c \in 1..2 :
       s.children[c][1] # s.parent[1] /\ s.children[c][2] # s.parent[2]

\* The bound of a recorded call lies in the region of the call's cell.
BoundInCell(rec) == Contains(ScaleRect(Bound(rec.pcell), rec.scale), rec.bound)
\* The root of a root-seeded query contains the bound of the clipped edge.
ClippedInside(root, seg) ==
  seg.ok /\ Contains(Bound(root), FromPointPair(seg.a, seg.b))
RootContainsEdge(e, root) == ClippedInside(root, ClipToFace(e, root.face))

\* C10 as amended: at every call of the recursive search the edge bound is
\* contained in the cell's region, for the calls of GetCells(a, b) and for
\* those of a root-seeded query whose root's region contains the bound of
\* the edge clipped to the root's face.
BoundInsideCell ==
  (last.op = "map" \/ (last.op = "cells" /\ RootContainsEdge(last.e, last.root))) =>
    \A rec \in trace.calls : BoundInCell(rec)
\* C10 as stated: at every call of the recursive search, from either entry
\* point, the edge bound is contained in the cell's region.
BoundInsideCellAlways == \A rec \in trace.calls : BoundInCell(rec)
\* A root-seeded query below the face whose root contains the edge and whose
\* search split the bound and recursed into children of the root.
DeepCallsInside ==
  /\ last.op = "cells"
  /\ ~is_face(last.root)
  /\ RootContainsEdge(last.e, last.root)
  /\ trace.splits # {}
  /\ Cardinality({ rec \in trace.calls : rec.pcell.level > last.root.level }) >= 2

====
